---- MODULE Spec2Model ----
(***************************************************************************)
(* Model of dg_edge_updater: one run of main() (src/src/main.rs) over the  *)
(* three binary slots BIN_PATH, BACKUP_PATH, TMP_PATH and the managed      *)
(* systemd service, with every fallible call of src/src/lib.rs as a step   *)
(* whose outcome the environment chooses.  Successive process invocations  *)
(* are modelled by NextRun.                                                *)
(***************************************************************************)
EXTENDS Integers, Sequences, FiniteSets, TLC

\* ---------------------------------------------------------------- bounds
\* versions are drawn with major + minor + patch up to this number
MaxVersionSum == 1
\* number of successive invocations of the updater
MaxRuns == 2

\* ------------------------------------------------------------- constants
StartAttempts == 3
SleepSecs == 2

\* --------------------------------------------------------------- versions
\* semver::Version as <<major, minor, patch>>; Option::None is <<>>
Versions ==
    {v \in (0..MaxVersionSum) \X (0..MaxVersionSum) \X (0..MaxVersionSum) :
        v[1] + v[2] + v[3] <= MaxVersionSum}
None == <<>>
\* a version string that semver rejects (a single component, e.g. "1")
Malformed == <<0>>
ZeroVersion == <<0, 0, 0>>

\* Version::parse: a string of exactly three numeric components
VersionParse(s) == IF Len(s) = 3 THEN s ELSE None

\* Ord for semver::Version: major, then minor, then patch
\* (pre-release and build tags are not drawn: every version is a release)
VersionLt(a, b) ==
    \/ a[1] < b[1]
    \/ a[1] = b[1] /\ a[2] < b[2]
    \/ a[1] = b[1] /\ a[2] = b[2] /\ a[3] < b[3]

VersionLe(a, b) == a = b \/ VersionLt(a, b)

\* ------------------------------------------------------------------ files
\* a slot's content: who wrote it, its mode, and what `--version` does
NoFile == [id |-> "none", exec |-> FALSE, status |-> 1, stdout |-> None]
Bin(id, v) == [id |-> id, exec |-> TRUE, status |-> 0, stdout |-> v]
\* a binary whose --version exits non-zero
Broken(id) == [id |-> id, exec |-> TRUE, status |-> 1, stdout |-> None]
\* a binary whose --version prints something that is not a version
Garbage(id) == [id |-> id, exec |-> TRUE, status |-> 0, stdout |-> Malformed]
\* a truncated file left by an interrupted write
Partial(x) == [id |-> "partial", exec |-> x, status |-> 1, stdout |-> None]

Exists(f) == f.id # "none"
HoldsBinary(f) == f.id \notin {"none", "partial"}

Archs == {"x86_64", "aarch64", "riscv64"}

VARIABLES
    live,       \* content of BIN_PATH
    backup,     \* content of BACKUP_PATH
    staged,     \* content of TMP_PATH
    running,    \* the managed service is active
    arch,       \* env::consts::ARCH of the build
    pc,         \* position of main()
    attempt,    \* loop variable of try_start_with_rollback
    manifest,   \* manifest.version as fetched (a string)
    remote,     \* remote_version
    local,      \* local_version
    exit,       \* result of main: "none" while running, "Ok" or "Err"
    failed,     \* the call whose error main returned, "none" otherwise
    log,        \* the info!/error! lines of interest written in this run
    trace,      \* the calls made in this run, in order
    preLive,    \* content of BIN_PATH when the run started
    preBackup,  \* content of BACKUP_PATH when the run started
    preStaged,  \* content of TMP_PATH when the run started
    preRunning, \* service state when the run started
    hadBinary,  \* some slot of {live, backup} held a binary at the first run
    runs        \* invocations so far

vars == <<live, backup, staged, running, arch, pc, attempt, manifest, remote,
          local, exit, failed, log, trace, preLive, preBackup, preStaged,
          preRunning, hadBinary, runs>>

slots == <<live, backup, staged>>
pre == <<preLive, preBackup, preStaged, preRunning, hadBinary, runs, arch>>

Ev(op, ok) == [op |-> op, ok |-> ok, secs |-> 0]
Count(op) == Cardinality({i \in 1..Len(trace) : trace[i].op = op})
CountOk(op, ok) ==
    Cardinality({i \in 1..Len(trace) : trace[i].op = op /\ trace[i].ok = ok})

\* ------------------------------------------------------------------- Init
InstalledFiles ==
    {Bin("installed", v) : v \in Versions}
        \cup {Broken("installed"), Garbage("installed")}

Init ==
    /\ live \in InstalledFiles \cup {NoFile}
    /\ backup = NoFile
    /\ staged = NoFile
    /\ running \in BOOLEAN
    /\ arch \in Archs
    /\ pc = "fetch"
    /\ attempt = 0
    /\ manifest = None
    /\ remote = None
    /\ local = None
    /\ exit = "none"
    /\ failed = "none"
    /\ log = {}
    /\ trace = <<>>
    /\ preLive = live
    /\ preBackup = backup
    /\ preStaged = staged
    /\ preRunning = running
    /\ hadBinary = (HoldsBinary(live) \/ HoldsBinary(backup))
    /\ runs = 1

\* main returns Err(e) from the call `op` through `?`
Fail(op) ==
    /\ pc' = "done"
    /\ exit' = "Err"
    /\ failed' = op

\* ------------------------------------------------------------ lib.rs ops
get_binary_version(f) ==
    IF ~Exists(f) \/ ~f.exec THEN None
    ELSE IF f.status # 0 THEN None
    ELSE VersionParse(f.stdout)


\* a mapping that falls back to the raw architecture name instead of refusing
get_download_url_fallback(a) == IF a = "x86_64" THEN "amd64" ELSE a

get_download_url(a) ==
    IF a = "x86_64" THEN "amd64"
    ELSE IF a = "aarch64" THEN a
    ELSE "Unsupported"


\* fs::rename(from, to): the source name disappears, the target is replaced
RenameKeepsSource(from, to) == [from |-> from, to |-> from]

\* a rename that silently does nothing when the target exists
RenameNoReplace(from, to) ==
    IF Exists(to) THEN [from |-> from, to |-> to]
    ELSE [from |-> NoFile, to |-> from]

Rename(from, to) == [from |-> NoFile, to |-> from]

\* fs::copy(from, to): content and permission bits of `from` land in `to`
Copy(from, to) == from

\* main.rs:33, the gate `remote_version <= local_version`
UpToDateStrict(r, l) == VersionLt(r, l)
UpToDate(r, l) == VersionLe(r, l)

\* lib.rs:128, `for attempt in 1..=3`: is there another iteration after a
AnotherAttemptOffByOne(a) == a <= StartAttempts

\* a retry loop that runs two iterations too many
AnotherAttemptUpToFive(a) == a < StartAttempts + 2

AnotherAttempt(a) == a < StartAttempts

\* main.rs:62-66, the final report on the bool of try_start_with_rollback
ReportInverted(ok) == IF ok THEN "CRITICAL UPDATE FAILURE" ELSE "Update successful!"
Report(ok) == IF ok THEN "Update successful!" ELSE "CRITICAL UPDATE FAILURE"

\* what the download server may send for the version asked for
WrongVersion(v) == IF v = ZeroVersion THEN <<0, 0, 1>> ELSE ZeroVersion
Bodies(v) == {v, WrongVersion(v), None}

\* ------------------------------------------------------------ main.rs steps
\* main.rs:25-28  fetch_manifest and Version::parse(&manifest.version)
FetchManifest ==
    /\ pc = "fetch"
    /\ \/ /\ trace' = Append(trace, Ev("fetch", FALSE))
          /\ Fail("fetch_manifest")
          /\ UNCHANGED <<manifest, remote>>
       \/ \E m \in Versions \cup {Malformed} :
            /\ trace' = Append(trace, Ev("fetch", TRUE))
            /\ manifest' = m
            /\ IF VersionParse(m) = None
               THEN Fail("Version::parse") /\ UNCHANGED remote
               ELSE /\ remote' = VersionParse(m)
                    /\ pc' = "check"
                    /\ UNCHANGED <<exit, failed>>
    /\ UNCHANGED <<slots, running, attempt, local, log, pre>>

\* main.rs:29-36  local version (0.0.0 when unreadable) and the gate
CheckVersion ==
    /\ pc = "check"
    /\ LET v == get_binary_version(live)
           l == IF v = None THEN ZeroVersion ELSE v
       IN /\ local' = l
          /\ trace' = Append(trace, Ev("version", v # None))
          /\ IF UpToDate(remote, l)
             THEN /\ log' = log \cup {"Up to date! nothing to do."}
                  /\ pc' = "done"
                  /\ exit' = "Ok"
             ELSE /\ pc' = "url"
                  /\ UNCHANGED <<log, exit>>
    /\ UNCHANGED <<slots, running, attempt, manifest, remote, failed, pre>>

\* main.rs:39  get_download_url
GetDownloadUrl ==
    /\ pc = "url"
    /\ IF get_download_url(arch) = "Unsupported"
       THEN Fail("get_download_url")
       ELSE pc' = "download" /\ UNCHANGED <<exit, failed>>
    /\ trace' = Append(trace, Ev("url", get_download_url(arch) # "Unsupported"))
    /\ UNCHANGED <<slots, running, attempt, manifest, remote, local, log, pre>>


\* a download that streams into BIN_PATH instead of TMP_PATH
DownloadFileInPlace ==
    /\ pc = "download"
    /\ \/ /\ UNCHANGED live
          /\ trace' = Append(trace, Ev("download", FALSE))
          /\ Fail("download_file")
       \/ /\ live' = Partial(live.exec)
          /\ trace' = Append(trace, Ev("download", FALSE))
          /\ Fail("download_file")
       \/ \E b \in Bodies(remote) :
            /\ live' = [id |-> "dl", exec |-> live.exec,
                        status |-> IF b = None THEN 1 ELSE 0, stdout |-> b]
            /\ trace' = Append(trace, Ev("download", TRUE))
            /\ pc' = "chmod"
            /\ UNCHANGED <<exit, failed>>
    /\ UNCHANGED <<staged, backup, running, attempt, manifest, remote, local,
                   log, pre>>

\* main.rs:40  download_file(TMP_PATH): request, File::create, chunk loop
DownloadFile ==
    /\ pc = "download"
    /\ \/ \* lib.rs:78-84 the request fails: nothing is written
          /\ UNCHANGED staged
          /\ trace' = Append(trace, Ev("download", FALSE))
          /\ Fail("download_file")
       \/ \* lib.rs:85-94 created (truncated), then a chunk or a write fails
          /\ staged' = Partial(staged.exec)
          /\ trace' = Append(trace, Ev("download", FALSE))
          /\ Fail("download_file")
       \/ \E b \in Bodies(remote) :
            /\ staged' = [id |-> "dl", exec |-> staged.exec,
                          status |-> IF b = None THEN 1 ELSE 0, stdout |-> b]
            /\ trace' = Append(trace, Ev("download", TRUE))
            /\ pc' = "chmod"
            /\ UNCHANGED <<exit, failed>>
    /\ UNCHANGED <<live, backup, running, attempt, manifest, remote, local,
                   log, pre>>

\* main.rs:41  set_executable_bit(TMP_PATH)
SetExecutableBit ==
    /\ pc = "chmod"
    /\ \/ /\ Exists(staged)
          /\ staged' = [staged EXCEPT !.exec = TRUE]
          /\ trace' = Append(trace, Ev("chmod", TRUE))
          /\ pc' = "verify"
          /\ UNCHANGED <<exit, failed>>
       \/ /\ UNCHANGED staged
          /\ trace' = Append(trace, Ev("chmod", FALSE))
          /\ Fail("set_executable_bit")
    /\ UNCHANGED <<live, backup, running, attempt, manifest, remote, local,
                   log, pre>>


\* a verification that only requires the staged binary to report some version
VerifyDownloadAnyVersion ==
    /\ pc = "verify"
    /\ LET v == get_binary_version(staged)
       IN IF v = None
          THEN /\ Fail("verify")
               /\ trace' = Append(trace, Ev("verify", FALSE))
          ELSE /\ pc' = "stop"
               /\ trace' = Append(trace, Ev("verify", TRUE))
               /\ UNCHANGED <<exit, failed>>
    /\ UNCHANGED <<slots, running, attempt, manifest, remote, local, log, pre>>

\* main.rs:44-53  the staged binary must report the manifest's version
VerifyDownload ==
    /\ pc = "verify"
    /\ LET v == get_binary_version(staged)
       IN IF v = None \/ v # remote
          THEN /\ Fail("verify")
               /\ trace' = Append(trace, Ev("verify", FALSE))
          ELSE /\ pc' = "stop"
               /\ trace' = Append(trace, Ev("verify", TRUE))
               /\ UNCHANGED <<exit, failed>>
    /\ UNCHANGED <<slots, running, attempt, manifest, remote, local, log, pre>>


\* a stop whose error is dropped instead of returned
StopServiceErrorIgnored ==
    /\ pc = "stop"
    /\ \/ /\ running' = FALSE
          /\ trace' = Append(trace, Ev("stop", TRUE))
       \/ /\ running' \in {running, FALSE}
          /\ trace' = Append(trace, Ev("stop", FALSE))
    /\ pc' = "swap_remove"
    /\ UNCHANGED <<exit, failed>>
    /\ UNCHANGED <<slots, attempt, manifest, remote, local, log, pre>>

\* main.rs:56  run_systemctl("stop")
StopService ==
    /\ pc = "stop"
    /\ \/ /\ running' = FALSE
          /\ trace' = Append(trace, Ev("stop", TRUE))
          /\ pc' = "swap_remove"
          /\ UNCHANGED <<exit, failed>>
       \/ \* a failed stop may or may not have brought the service down
          /\ running' \in {running, FALSE}
          /\ trace' = Append(trace, Ev("stop", FALSE))
          /\ Fail("systemctl stop")
    /\ UNCHANGED <<slots, attempt, manifest, remote, local, log, pre>>


\* ----------------------------------------------------- lib.rs swap_binaries
\* lib.rs:45-47  a backup that exists is removed; a failed removal is ignored
SwapRemoveBackup ==
    /\ pc = "swap_remove"
    /\ IF Exists(backup)
       THEN \/ /\ backup' = NoFile
               /\ trace' = Append(trace, Ev("remove_backup", TRUE))
            \/ /\ UNCHANGED backup
               /\ trace' = Append(trace, Ev("remove_backup", FALSE))
       ELSE UNCHANGED <<backup, trace>>
    /\ pc' = "swap_rename"
    /\ UNCHANGED <<live, staged, running, attempt, manifest, remote, local,
                   exit, failed, log, pre>>

\* lib.rs:48  fs::rename(BIN_PATH, BACKUP_PATH)?
SwapRename ==
    /\ pc = "swap_rename"
    /\ \/ /\ Exists(live)
          /\ live' = Rename(live, backup).from
          /\ backup' = Rename(live, backup).to
          /\ trace' = Append(trace, Ev("swap_rename", TRUE))
          /\ pc' = "swap_copy"
          /\ UNCHANGED <<exit, failed>>
       \/ \* ENOENT when BIN_PATH is missing, or any other refusal
          /\ UNCHANGED <<live, backup>>
          /\ trace' = Append(trace, Ev("swap_rename", FALSE))
          /\ Fail("swap_binaries")
    /\ UNCHANGED <<staged, running, attempt, manifest, remote, local, log, pre>>


\* a swap that moves the staged file into place instead of copying it
SwapCopyMoves ==
    /\ pc = "swap_copy"
    /\ \/ /\ Exists(staged)
          /\ live' = Copy(staged, live)
          /\ staged' = NoFile
          /\ trace' = Append(trace, Ev("swap_copy", TRUE))
          /\ pc' = "start"
          /\ attempt' = 1
          /\ UNCHANGED <<exit, failed>>
       \/ /\ live' \in {live, Partial(staged.exec)}
          /\ UNCHANGED staged
          /\ trace' = Append(trace, Ev("swap_copy", FALSE))
          /\ Fail("swap_binaries")
          /\ UNCHANGED attempt
    /\ UNCHANGED <<backup, running, manifest, remote, local, log, pre>>

\* lib.rs:49  fs::copy(TMP_PATH, BIN_PATH)
SwapCopy ==
    /\ pc = "swap_copy"
    /\ \/ /\ Exists(staged)
          /\ live' = Copy(staged, live)
          /\ trace' = Append(trace, Ev("swap_copy", TRUE))
          /\ pc' = "start"
          /\ attempt' = 1
          /\ UNCHANGED <<exit, failed>>
       \/ \* the copy fails before or after BIN_PATH was created
          /\ live' \in {live, Partial(staged.exec)}
          /\ trace' = Append(trace, Ev("swap_copy", FALSE))
          /\ Fail("swap_binaries")
          /\ UNCHANGED attempt
    /\ UNCHANGED <<backup, staged, running, manifest, remote, local, log, pre>>

\* ------------------------------------------- lib.rs try_start_with_rollback
\* lib.rs:128-132  one iteration: run_systemctl("start"); Ok(true) on success
\* (main.rs:62-67 then reports and returns)
StartService ==
    /\ pc = "start"
    /\ \/ /\ running' = TRUE
          /\ trace' = Append(trace, Ev("start", TRUE))
          /\ log' = log \cup {Report(TRUE)}
          /\ pc' = "done"
          /\ exit' = "Ok"
       \/ /\ UNCHANGED <<running, log, exit>>
          /\ trace' = Append(trace, Ev("start", FALSE))
          /\ pc' = "sleep"
    /\ UNCHANGED <<slots, attempt, manifest, remote, local, failed, pre>>

\* lib.rs:133-135  sleep 2s, then the next iteration or the rollback
Sleep ==
    /\ pc = "sleep"
    /\ trace' = Append(trace, [op |-> "sleep", ok |-> TRUE, secs |-> SleepSecs])
    /\ IF AnotherAttempt(attempt)
       THEN /\ attempt' = attempt + 1
            /\ pc' = "start"
            /\ UNCHANGED log
       ELSE /\ pc' = "rollback_remove"
            /\ log' = log \cup {"Rolling back to backup"}
            /\ UNCHANGED attempt
    /\ UNCHANGED <<slots, running, manifest, remote, local, exit, failed, pre>>

\* lib.rs:136  fs::remove_file(BIN_PATH).await.ok()
RollbackRemove ==
    /\ pc = "rollback_remove"
    /\ \/ /\ Exists(live)
          /\ live' = NoFile
          /\ trace' = Append(trace, Ev("remove_live", TRUE))
       \/ /\ UNCHANGED live
          /\ trace' = Append(trace, Ev("remove_live", FALSE))
    /\ pc' = "rollback_rename"
    /\ UNCHANGED <<backup, staged, running, attempt, manifest, remote, local,
                   exit, failed, log, pre>>

\* lib.rs:137  fs::rename(BACKUP_PATH, BIN_PATH)?
RollbackRename ==
    /\ pc = "rollback_rename"
    /\ \/ /\ Exists(backup)
          /\ backup' = Rename(backup, live).from
          /\ live' = Rename(backup, live).to
          /\ trace' = Append(trace, Ev("rollback_rename", TRUE))
          /\ pc' = "rollback_start"
          /\ UNCHANGED <<exit, failed>>
       \/ /\ UNCHANGED <<live, backup>>
          /\ trace' = Append(trace, Ev("rollback_rename", FALSE))
          /\ Fail("try_start_with_rollback")
    /\ UNCHANGED <<staged, running, attempt, manifest, remote, local, log, pre>>


\* a start after the rollback whose failure is not told apart from success
RollbackStartAlwaysTrue ==
    /\ pc = "rollback_start"
    /\ \/ /\ running' = TRUE
          /\ trace' = Append(trace, Ev("start", TRUE))
          /\ log' = log \cup {"Rollback succeeded", Report(TRUE)}
       \/ /\ UNCHANGED running
          /\ trace' = Append(trace, Ev("start", FALSE))
          /\ log' = log \cup {Report(TRUE)}
    /\ pc' = "done"
    /\ exit' = "Ok"
    /\ UNCHANGED <<slots, attempt, manifest, remote, local, failed, pre>>

\* lib.rs:139-143  the start after the rollback (main.rs:62-67 reports)
RollbackStart ==
    /\ pc = "rollback_start"
    /\ \/ /\ running' = TRUE
          /\ trace' = Append(trace, Ev("start", TRUE))
          /\ log' = log \cup {"Rollback succeeded", Report(TRUE)}
       \/ /\ UNCHANGED running
          /\ trace' = Append(trace, Ev("start", FALSE))
          /\ log' = log \cup {Report(FALSE)}
    /\ pc' = "done"
    /\ exit' = "Ok"
    /\ UNCHANGED <<slots, attempt, manifest, remote, local, failed, pre>>

\* the updater is invoked again (it is a run-to-completion process)
NextRun ==
    /\ pc = "done"
    /\ runs < MaxRuns
    /\ runs' = runs + 1
    /\ pc' = "fetch"
    /\ attempt' = 0
    /\ manifest' = None
    /\ remote' = None
    /\ local' = None
    /\ exit' = "none"
    /\ failed' = "none"
    /\ log' = {}
    /\ trace' = <<>>
    /\ preLive' = live
    /\ preBackup' = backup
    /\ preStaged' = staged
    /\ preRunning' = running
    /\ UNCHANGED <<slots, running, arch, hadBinary>>

Next ==
    \/ FetchManifest
    \/ CheckVersion
    \/ GetDownloadUrl
    \/ DownloadFile
    \/ SetExecutableBit
    \/ VerifyDownload
    \/ StopService
    \/ SwapRemoveBackup
    \/ SwapRename
    \/ SwapCopy
    \/ StartService
    \/ Sleep
    \/ RollbackRemove
    \/ RollbackRename
    \/ RollbackStart
    \/ NextRun

Spec == Init /\ [][Next]_vars

TypeOK ==
    /\ pc \in {"fetch", "check", "url", "download", "chmod", "verify", "stop",
               "swap_remove", "swap_rename", "swap_copy", "start", "sleep",
               "rollback_remove", "rollback_rename", "rollback_start", "done"}
    /\ exit \in {"none", "Ok", "Err"}
    /\ running \in BOOLEAN
    /\ runs \in 1..MaxRuns
    /\ attempt \in 0..(StartAttempts + 1)


\* ------------------------------------------------------ vocabulary of claims
Idx(op) == {i \in 1..Len(trace) : trace[i].op = op}
Last == trace[Len(trace)]
Critical == "CRITICAL UPDATE FAILURE" \in log
Terminated == pc = "done"
\* the starts made with the new binary: those before the rollback began
NewStarts == {i \in Idx("start") : \A j \in Idx("remove_live") : i < j}
FailedNewStarts == {i \in NewStarts : ~trace[i].ok}
RollbackTriggered == "Rolling back to backup" \in log
\* starts 1-3 failed and the rollback's rename succeeded
RolledBack ==
    /\ Cardinality(FailedNewStarts) = StartAttempts
    /\ CountOk("rollback_rename", TRUE) = 1

\* C1: started with a binary in the live or the backup slot, every state of
\* every run, and of every later run, has the live or the backup slot present.
C1_NeverNeither == hadBinary => (Exists(live) \/ Exists(backup))

\* C2: a run that has terminated (here: one that began with a binary in the
\* live slot) has a binary in the live slot or is flagged critical.
C2_LiveOrCritical ==
    (Terminated /\ HoldsBinary(preLive)) => (HoldsBinary(live) \/ Critical)

\* C3: a run ended by a failure of the swap (rename or copy) is flagged
\* critical, which a routine failure never is.
C3_SwapFailureCritical ==
    /\ (Terminated /\ failed = "swap_binaries") => Critical
    /\ (Terminated /\ failed \notin {"none", "swap_binaries",
                                     "try_start_with_rollback"}) => ~Critical

\* C4: three failed starts and a failed rollback rename end the run flagged
\* critical, with no second rollback and no fourth start.
C4_RollbackFailureCritical ==
    (/\ Terminated
     /\ Cardinality(FailedNewStarts) = StartAttempts
     /\ CountOk("rollback_rename", FALSE) = 1)
        => /\ Critical
           /\ Count("rollback_rename") = 1
           /\ Count("start") = StartAttempts

\* C5: at most 3 starts with the new binary; every failed one is followed by
\* a 2 second sleep and every sleep follows a failed one; a successful one
\* ends the run with no further start and no rollback; the rollback is
\* entered exactly when 3 starts have failed and the third wait is over.
C5_RetryBound ==
    /\ Cardinality(NewStarts) <= 3
    /\ \A i \in FailedNewStarts :
          IF i = Len(trace) THEN pc = "sleep"
          ELSE trace[i + 1].op = "sleep" /\ trace[i + 1].secs = 2
    /\ \A i \in Idx("sleep") :
          i > 1 /\ trace[i - 1].op = "start" /\ ~trace[i - 1].ok
    /\ \A i \in NewStarts :
          trace[i].ok => /\ i = Len(trace)
                         /\ Terminated
                         /\ ~RollbackTriggered
                         /\ Idx("remove_live") \cup Idx("rollback_rename") = {}
    /\ RollbackTriggered <=>
          (Cardinality(FailedNewStarts) = 3 /\ Count("sleep") = 3)
    /\ (Idx("remove_live") # {} \/ pc = "rollback_remove") => RollbackTriggered

\* the second start with the new binary succeeded
C5_Witness ==
    /\ Terminated
    /\ Cardinality(NewStarts) = 2
    /\ Last.op = "start" /\ Last.ok
    /\ Count("sleep") = 1

\* C6: starts 1-3 failed, the rollback rename succeeded and the start after
\* it succeeded: the live slot holds the binary that was live before the run,
\* the backup slot is absent and the service runs.
C6_RollbackRestores ==
    (Terminated /\ RolledBack /\ Last.op = "start" /\ Last.ok)
        => /\ live = preLive
           /\ Exists(live)
           /\ ~Exists(backup)
           /\ running

C6_Witness ==
    /\ Terminated /\ RolledBack /\ Last.op = "start" /\ Last.ok
    /\ Exists(preBackup)

\* C7: a run that rolled back and then started the service does not report
\* "Update successful!".
C7_RollbackReported ==
    (Terminated /\ RolledBack /\ Last.op = "start" /\ Last.ok)
        => "Update successful!" \notin log

\* C8: after 3 failed starts and a successful rollback rename there is at most
\* one more start; when it fails the run is over, flagged critical, with the
\* pre-run binary in the live slot, 4 starts and 1 rollback in all.
C8_RollbackStartFails ==
    /\ RolledBack => Cardinality(Idx("start") \ NewStarts) <= 1
    /\ (RolledBack /\ pc # "rollback_start")
          => Cardinality(Idx("start") \ NewStarts) = 1
    /\ (RolledBack /\ Last.op = "start" /\ ~Last.ok)
          => /\ Terminated
             /\ Critical
             /\ "Update successful!" \notin log
             /\ live = preLive
             /\ Exists(live)
             /\ Count("start") = StartAttempts + 1
             /\ Count("rollback_rename") = 1
             /\ Count("remove_live") = 1

C8_Witness ==
    Terminated /\ RolledBack /\ Last.op = "start" /\ ~Last.ok

\* C9: once the versions are compared, the run goes on to the download iff
\* remote > local; otherwise it is over as "up to date" with exit Ok, no
\* download, no service call and the three slots and the service as before.
C9_UpdateIffNewer ==
    Count("version") = 1 =>
        IF VersionLt(local, remote)
        THEN /\ "Up to date! nothing to do." \notin log
             /\ pc # "check"
             /\ (Terminated => Count("url") = 1)
        ELSE /\ Terminated
             /\ exit = "Ok"
             /\ log = {"Up to date! nothing to do."}
             /\ Len(trace) = 2
             /\ live = preLive /\ backup = preBackup /\ staged = preStaged
             /\ running = preRunning

\* remote = local, a version above 0.0.0: the run is a no-op
C9_Witness ==
    /\ Terminated
    /\ Count("version") = 1
    /\ remote = local
    /\ VersionLt(ZeroVersion, local)
    /\ exit = "Ok"

\* C10: with no binary in the live slot, a remote version above 0.0.0 and
\* every download, verification and service call succeeding, the local
\* version counts as 0.0.0 and the run ends with the new binary live.
C10_FirstInstall ==
    (/\ Terminated
     /\ ~Exists(preLive)
     /\ remote # None /\ VersionLt(ZeroVersion, remote)
     /\ CountOk("url", TRUE) = 1
     /\ CountOk("download", TRUE) = 1
     /\ CountOk("chmod", TRUE) = 1
     /\ CountOk("verify", TRUE) = 1
     /\ CountOk("stop", TRUE) = 1
     /\ CountOk("start", FALSE) = 0)
        => /\ local = ZeroVersion
           /\ live.id = "dl"
           /\ get_binary_version(live) = remote

\* the calls that rename, write or delete BIN_PATH or BACKUP_PATH
SlotOps == {"remove_backup", "swap_rename", "swap_copy", "remove_live",
            "rollback_rename"}
\* the failures main can return before run_systemctl("stop") is called
PreStopFailures == {"fetch_manifest", "Version::parse", "get_download_url",
                    "download_file", "set_executable_bit", "verify"}

\* C11: once the verification has run on a staged binary that reports no
\* version or a version other than the manifest's, the run is over with an
\* error, the service was never stopped, no swap step was made, and the live
\* and the backup slot are as they were before the run.
C11_VerificationGuards ==
    (Count("verify") = 1 /\ get_binary_version(staged) # remote)
        => /\ Terminated
           /\ exit = "Err"
           /\ failed = "verify"
           /\ Count("stop") = 0
           /\ \A i \in 1..Len(trace) : trace[i].op \notin SlotOps
           /\ live = preLive
           /\ backup = preBackup

\* the staged binary reports a version, but not the manifest's
C11_Witness ==
    /\ Terminated
    /\ Count("verify") = 1
    /\ get_binary_version(staged) # None
    /\ get_binary_version(staged) # remote
    /\ Exists(preLive)

\* C12 (as claimed): x86_64 maps to amd64, aarch64 to aarch64, and on any
\* other architecture the run fails as unsupported with no manifest fetch and
\* no download made.
C12_RejectBeforeNetwork ==
    /\ get_download_url("x86_64") = "amd64"
    /\ get_download_url("aarch64") = "aarch64"
    /\ arch \notin {"x86_64", "aarch64"}
          => /\ Count("fetch") = 0
             /\ Count("download") = 0
             /\ Terminated => failed = "get_download_url"

\* C12 (amended): x86_64 maps to amd64, aarch64 to aarch64; on any other
\* architecture no download is ever made, and a run that gets past the
\* version check ends there with the Unsupported error of get_download_url,
\* after the manifest fetch.
C12_RejectBeforeDownload ==
    /\ get_download_url("x86_64") = "amd64"
    /\ get_download_url("aarch64") = "aarch64"
    /\ arch \notin {"x86_64", "aarch64"}
          => /\ Count("download") = 0
             /\ pc \notin {"download", "chmod", "verify", "stop"}
             /\ Count("url") = 1
                   => /\ Terminated
                      /\ exit = "Err"
                      /\ failed = "get_download_url"
                      /\ CountOk("fetch", TRUE) = 1
                      /\ staged = preStaged
    /\ CountOk("url", TRUE) = 1 => arch \in {"x86_64", "aarch64"}

C12_Witness ==
    /\ arch = "riscv64"
    /\ Terminated
    /\ failed = "get_download_url"

\* C13: a run ended by a failure before the service stop leaves the live
\* slot, the backup slot and the service as they were before the run; and
\* until the stop is called nothing but the staged path changes.
C13_PreStopFailureIsSafe ==
    /\ (Terminated /\ failed \in PreStopFailures)
          => /\ live = preLive
             /\ backup = preBackup
             /\ running = preRunning
             /\ Count("stop") = 0
    /\ Count("stop") = 0
          => live = preLive /\ backup = preBackup /\ running = preRunning

\* the download failed midway and left a truncated staged file
C13_Witness ==
    /\ Terminated
    /\ failed = "download_file"
    /\ staged # preStaged
    /\ Exists(preLive)

\* the run ended as "up to date" and changed nothing
NoOp ==
    /\ log = {"Up to date! nothing to do."}
    /\ live = preLive /\ backup = preBackup /\ staged = preStaged
    /\ running = preRunning
\* some systemctl start of this run returned success
StartOk == \E i \in Idx("start") : trace[i].ok
\* the run stopped the service and no later start succeeded
StoppedNotRestarted == CountOk("stop", TRUE) = 1 /\ ~StartOk

\* C14 (as claimed): a run that ends with exit Ok and no critical line either
\* changed nothing or had a successful start and a binary in the live slot;
\* a run that ends with the service stopped and not restarted, or with the
\* live slot missing, ends with Err or the critical line.
C14_ZeroExitMeansHealthy ==
    /\ (Terminated /\ exit = "Ok" /\ ~Critical)
          => (NoOp \/ (StartOk /\ HoldsBinary(live)))
    /\ (Terminated /\ (StoppedNotRestarted \/ ~Exists(live)))
          => (exit = "Err" \/ Critical)

\* C14 (amended): a run that ends with exit Ok and no critical line either
\* changed nothing or had a successful start, the service running and in the
\* live slot the verified new binary or the file that was live before the
\* run; a run that ends with the service stopped and not restarted, or with
\* the live slot missing after it changed anything, ends with Err or the
\* critical line.
C14_ZeroExitAmended ==
    /\ (Terminated /\ exit = "Ok" /\ ~Critical)
          => \/ NoOp
             \/ /\ StartOk
                /\ running
                /\ live = Bin("dl", remote) \/ live = preLive
                /\ Exists(live)
    /\ (Terminated /\ StoppedNotRestarted) => (exit = "Err" \/ Critical)
    /\ (Terminated /\ ~Exists(live) /\ ~NoOp) => (exit = "Err" \/ Critical)

\* a rollback restored a truncated file and the start after it succeeded
C14_Witness ==
    /\ Terminated /\ exit = "Ok" /\ ~Critical
    /\ StartOk
    /\ live = preLive
    /\ ~HoldsBinary(live)

\* C15: a swap that began with the backup, live and staged files present and
\* whose rename and copy succeeded leaves in the backup slot the file that
\* was live before it and in the live slot the staged file, whether or not
\* the old backup could be removed; the old backup never makes the swap fail:
\* a swap fails only where its rename or its copy was refused.
C15_StaleBackupReplaced ==
    /\ (/\ pc = "start" /\ attempt = 1
        /\ Exists(preBackup) /\ Exists(preLive))
          => /\ backup = preLive
             /\ live = staged
             /\ Exists(staged)
             /\ failed = "none"
    /\ failed = "swap_binaries"
          => /\ Last.op \in {"swap_rename", "swap_copy"}
             /\ ~Last.ok

\* the stale backup could not be removed and the swap went through
C15_Witness ==
    /\ pc = "start" /\ attempt = 1
    /\ Exists(preBackup) /\ Exists(preLive)
    /\ CountOk("remove_backup", FALSE) = 1
    /\ backup # preBackup

\* C16: every rename, write or delete of the live or backup slot comes after
\* a stop that returned success, and until then both slots are as before the
\* run; the swap's copy comes directly after its successful rename; every
\* start and every rollback step comes after the swap's successful copy.
C16_OrderedAndGated ==
    /\ \A i \in 1..Len(trace) :
          trace[i].op \in SlotOps \cup {"start", "sleep"}
             => \E j \in 1..(i - 1) : trace[j].op = "stop" /\ trace[j].ok
    /\ CountOk("stop", TRUE) = 0 => (live = preLive /\ backup = preBackup)
    /\ \A i \in Idx("swap_copy") :
          /\ i > 1
          /\ trace[i - 1].op = "swap_rename" /\ trace[i - 1].ok
    /\ \A i \in Idx("swap_rename") :
          \A j \in Idx("swap_copy") \cup Idx("start") : i < j
    /\ \A i \in 1..Len(trace) :
          trace[i].op \in {"start", "remove_live", "rollback_rename"}
             => \E j \in 1..(i - 1) : trace[j].op = "swap_copy" /\ trace[j].ok
    /\ pc \in {"start", "sleep", "rollback_remove", "rollback_rename",
               "rollback_start"} => CountOk("swap_copy", TRUE) = 1

\* a run that went through stop, swap, three starts and the rollback
C16_Witness ==
    /\ Terminated
    /\ CountOk("stop", TRUE) = 1
    /\ CountOk("swap_copy", TRUE) = 1
    /\ Count("rollback_rename") = 1

\* C17: a run in which the swap's rename succeeded and its copy failed takes
\* the rollback path, and ends with the pre-run file back in the live slot.
C17_CopyFailureRolledBack ==
    (/\ Terminated
     /\ CountOk("swap_rename", TRUE) = 1
     /\ CountOk("swap_copy", FALSE) = 1)
        => /\ CountOk("rollback_rename", TRUE) = 1
           /\ live = preLive

\* C18: from the successful verification on, the staged path holds the
\* downloaded binary unchanged, whatever the swap and the rollback do; and a
\* run ended by a successful start with the new binary has that binary,
\* reporting the manifest's version, in the live slot and the pre-run live
\* file in the backup slot.
C18_StagedKeptAfterUpdate ==
    /\ CountOk("verify", TRUE) = 1
          => /\ staged = Bin("dl", remote)
             /\ get_binary_version(staged) = remote
    /\ (\E i \in NewStarts : trace[i].ok)
          => /\ Terminated
             /\ live = Bin("dl", remote)
             /\ get_binary_version(live) = remote
             /\ backup = preLive
             /\ Exists(backup)
             /\ staged = live

\* the update went through on the first start
C18_Witness ==
    /\ Terminated
    /\ Cardinality(NewStarts) = 1
    /\ Last.op = "start" /\ Last.ok
    /\ running

\* every call of a run returns, so a run that is not over takes its next step
FairSpec == Spec /\ WF_vars(Next)

\* the calls a run makes at most once
OnceOps == {"fetch", "version", "url", "download", "chmod", "verify", "stop",
            "remove_backup", "swap_rename", "swap_copy", "remove_live",
            "rollback_rename"}

RunIsBounded ==
    /\ \A op \in OnceOps : Count(op) <= 1
    /\ Count("start") <= 4
    /\ Cardinality(NewStarts) <= 3
    /\ Count("sleep") <= 3
    /\ Len(trace) <= 19
    /\ Terminated <=> exit \in {"Ok", "Err"}
    /\ Terminated =>
          \/ exit = "Err" /\ failed # "none"
          \/ log = {"Up to date! nothing to do."}
          \/ Last.op = "start" /\ Last.ok /\ "Update successful!" \in log
          \/ Last.op = "start" /\ ~Last.ok /\ Critical

\* C19: a run that is not over always comes to its end (up to date, started,
\* rolled back or failed), and on the way makes each of version check,
\* download, verification, stop, swap step and rollback step at most once
\* and at most 4 starts, 3 of them with the new binary.
C19_RunTerminates == []RunIsBounded /\ (~Terminated ~> Terminated)

\* the longest run: three failed starts, the rollback and a fourth start
C19_Witness ==
    /\ Terminated
    /\ Count("start") = 4
    /\ Count("sleep") = 3
    /\ Count("rollback_rename") = 1

\* the run began in the steady state: a binary in the live slot, no backup
Steady == HoldsBinary(preLive) /\ ~Exists(preBackup)
\* (a) and (c): only the live slot is filled
ShapeOnlyLive == Exists(live) /\ ~Exists(backup)
\* (b): the new binary is live, a backup exists
ShapeSwapped ==
    Exists(live) /\ Exists(backup) /\ live.id = "dl" /\ live = staged
\* the live slot is empty or truncated and the pre-run binary is the backup
ShapeLiveOut == live \in {NoFile, Partial(TRUE)} /\ backup = preLive

\* C20 (as claimed): in every state of a run begun in the steady state the
\* live slot exists, and either the backup is absent or the backup exists
\* and the live slot holds the new binary.
C20_ThreeShapes ==
    Steady => (Exists(live) /\ (ShapeOnlyLive \/ ShapeSwapped))

\* C20 (amended): in every state of a run begun in the steady state the
\* slots have one of four shapes: the pre-run binary live and no backup
\* (before the swap, after the rollback); the new binary live and the
\* pre-run binary as backup; or the live slot empty or truncated and the
\* pre-run binary as backup (between the swap's rename and copy, after a
\* failed copy, between the rollback's delete and rename).  The live or the
\* backup slot exists in each of them.
C20_FourShapes ==
    Steady =>
        /\ \/ live = preLive /\ ~Exists(backup)
           \/ live = Bin("dl", remote) /\ live = staged /\ backup = preLive
           \/ ShapeLiveOut
        /\ Exists(live) \/ Exists(backup)

\* between the swap's rename and its copy
C20_Witness ==
    /\ Steady
    /\ pc = "swap_copy"
    /\ ~Exists(live)
    /\ backup = preLive

====
